---- MODULE Spec2Model ----
(***************************************************************************)
(* The task tree of JobDoko (src/main.py): TaskNode objects on a heap,     *)
(* the session's root list, and the operations the page handlers run on    *)
(* them.  An object is a number of Nodes; its fields are the functions     *)
(* children, parent, completed (_is_completed), task_id and attrs (name,   *)
(* description, is_expanded, created_at).  One script run handles one      *)
(* call: `last` holds the call and its result while the handler runs, and  *)
(* an object the call took out of the forest stays on the heap (the        *)
(* handler still holds it) until the script reruns.                        *)
(*                                                                         *)
(* Seven specifications share the state.  Spec: the TaskNode methods on    *)
(* the forest of one session.  SpecSerial: to_dict and from_dict on trees  *)
(* with different texts, flags and expand states.  SpecApp: the handlers   *)
(* of main_app with the user's task file.  SpecSession: login, logout,     *)
(* timeout, loading and autosave over two users' files and the clock.      *)
(* SpecDisk: the saving handlers on a disk whose writes can fail.          *)
(* SpecLive: a session that keeps running, with fairness.  SpecAccounts:   *)
(* the login form and the admin's user page over users.json.               *)
(***************************************************************************)
EXTENDS Integers, Sequences, FiniteSets, TLC

MaxNodes == 3
MaxIds == 4

Nodes == 1..MaxNodes
None == 0

Users == {"alice", "bob"}

VARIABLES nodes, children, parent, completed, task_id, attrs, root_tasks, next_id,
          last, store, session, now, owner, users, disk_ok

vars == <<nodes, children, parent, completed, task_id, attrs, root_tasks, next_id,
          last, store, session, now, owner, users, disk_ok>>

(***************************************************************************)
(* What lies outside the task objects: the users' task files (store), the  *)
(* keys of st.session_state other than root_tasks (session), the clock,    *)
(* the accounts of users.json (users), whether writing a task file         *)
(* succeeds at present (disk_ok), and a history variable: owner is the     *)
(* user name main_app gave to load_tasks_from_file when it filled          *)
(* root_tasks.                                                             *)
(***************************************************************************)
appvars == <<store, session, now, owner, users, disk_ok>>

(***************************************************************************)
(* Python list helpers: `x in s`, s.index(x), s.remove(x) (first match).   *)
(***************************************************************************)
InSeq(x, s) == \E i \in 1..Len(s) : s[i] = x

IndexOf(x, s) == CHOOSE i \in 1..Len(s) : s[i] = x /\ \A j \in 1..(i - 1) : s[j] # x

RemoveFirst(s, x) ==
    IF InSeq(x, s)
    THEN LET k == IndexOf(x, s)
         IN [i \in 1..(Len(s) - 1) |-> IF i < k THEN s[i] ELSE s[i + 1]]
    ELSE s

Last(s) == s[Len(s)]

(***************************************************************************)
(* TaskNode.is_completed (getter): the stored flag of a node without       *)
(* children, all() over the children's is_completed otherwise.             *)
(***************************************************************************)
is_completed_stored(ch, fl, n) == fl[n]

RECURSIVE is_completed(_, _, _)
is_completed(ch, fl, n) ==
    IF ch[n] = <<>>
    THEN fl[n]
    ELSE \A i \in 1..Len(ch[n]) : is_completed(ch, fl, ch[n][i])

(***************************************************************************)
(* TaskNode.is_completed (setter): the flags after `n.is_completed = v`.   *)
(***************************************************************************)
set_is_completed_unchecked(ch, fl, n, v) == [fl EXCEPT ![n] = v]

set_is_completed_refused(ch, fl, n, v) == fl

set_is_completed(ch, fl, n, v) ==
    IF ch[n] = <<>> THEN [fl EXCEPT ![n] = v] ELSE fl

(***************************************************************************)
(* TaskNode.remove_child: the children lists after p.remove_child(c).      *)
(***************************************************************************)
remove_child_pop(ch, p, c) ==
    IF InSeq(c, ch[p]) THEN [ch EXCEPT ![p] = SubSeq(ch[p], 1, Len(ch[p]) - 1)] ELSE ch

remove_child(ch, p, c) ==
    IF InSeq(c, ch[p]) THEN [ch EXCEPT ![p] = RemoveFirst(ch[p], c)] ELSE ch

(***************************************************************************)
(* TaskNode.find_task_by_id and find_task_in_list: depth first, first      *)
(* match, None when there is none.                                         *)
(***************************************************************************)
RECURSIVE find_task_by_id(_, _, _, _), find_first(_, _, _, _, _)
find_task_by_id(ch, tid, n, id) ==
    IF tid[n] = id THEN n ELSE find_first(ch, tid, ch[n], 1, id)

find_first(ch, tid, tasks, i, id) ==
    IF i > Len(tasks)
    THEN None
    ELSE LET found == find_task_by_id(ch, tid, tasks[i], id)
         IN IF found # None THEN found ELSE find_first(ch, tid, tasks, i + 1, id)

find_task_in_list_first(ch, tid, tasks, id) ==
    LET found == find_first(ch, tid, tasks, 1, id)
    IN IF found = None /\ tasks # <<>> THEN tasks[1] ELSE found

find_task_in_list(ch, tid, tasks, id) == find_first(ch, tid, tasks, 1, id)

(***************************************************************************)
(* Init: a session whose user has no saved record starts with no tasks.    *)
(***************************************************************************)
NoCall == [op |-> "none", node |-> None, arg |-> 0, ret |-> FALSE]

Idle == last = NoCall

NoAttrs == [name |-> "", description |-> "", is_expanded |-> FALSE, created_at |-> 0]

NoFile == [exists |-> FALSE, parses |-> FALSE, data |-> <<>>]

(***************************************************************************)
(* users.json: an account as add_user writes it.  The salted hash of a     *)
(* password is kept as the password itself: two hashes with one salt are   *)
(* equal exactly when the passwords are.                                   *)
(***************************************************************************)
Accounts == Users \cup {"admin"}

Passwords == {"pw1", "pw2"}

add_user(password) == [password |-> password, failed_attempts |-> 0, locked |-> FALSE]

InitUsers == [a \in Accounts |-> add_user("pw1")]

Init ==
    /\ nodes = {}
    /\ children = [n \in Nodes |-> <<>>]
    /\ parent = [n \in Nodes |-> None]
    /\ completed = [n \in Nodes |-> FALSE]
    /\ task_id = [n \in Nodes |-> 0]
    /\ attrs = [n \in Nodes |-> NoAttrs]
    /\ root_tasks = <<>>
    /\ next_id = 1
    /\ last = NoCall
    /\ store = [u \in Users |-> NoFile]
    /\ session = [authenticated |-> TRUE, username |-> "alice", has_root_tasks |-> TRUE,
                  unsaved_changes |-> FALSE, last_save_time |-> 0, last_activity |-> 0]
    /\ now = 0
    /\ owner = "alice"
    /\ users = InitUsers
    /\ disk_ok = TRUE

(***************************************************************************)
(* TaskNode.__init__: a new object with no children.  Its task_id is the   *)
(* one given, or a fresh one (uuid4, here the next unused number) when     *)
(* none is given.                                                          *)
(***************************************************************************)
CanCreate == nodes # Nodes /\ next_id <= MaxIds

init_task_id_fresh(given, fresh) == fresh

init_task_id(given, fresh) == IF given # None THEN given ELSE fresh

init_attrs(text, created_at) ==
    [name |-> text.name, description |-> text.description,
     is_expanded |-> FALSE, created_at |-> created_at]

NewNode == CHOOSE n \in Nodes \ nodes : \A m \in Nodes \ nodes : n <= m

(***************************************************************************)
(* main_app, "add root task" form.                                         *)
(***************************************************************************)
AddRoot(text) ==
    /\ Idle
    /\ CanCreate
    /\ LET n == NewNode
       IN /\ nodes' = nodes \cup {n}
          /\ task_id' = [task_id EXCEPT ![n] = init_task_id(None, next_id)]
          /\ children' = [children EXCEPT ![n] = <<>>]
          /\ parent' = [parent EXCEPT ![n] = None]
          /\ completed' = [completed EXCEPT ![n] = FALSE]
          /\ attrs' = [attrs EXCEPT ![n] = init_attrs(text, now)]
          /\ root_tasks' = Append(root_tasks, n)
          /\ next_id' = next_id + 1
          /\ last' = [op |-> "add_root", node |-> None, arg |-> 0, ret |-> TRUE]
    /\ UNCHANGED appvars

(***************************************************************************)
(* TaskNode.add_child.                                                     *)
(***************************************************************************)
AddChild(p, text) ==
    /\ Idle
    /\ p \in nodes
    /\ CanCreate
    /\ LET n == NewNode
       IN /\ nodes' = nodes \cup {n}
          /\ task_id' = [task_id EXCEPT ![n] = init_task_id(None, next_id)]
          /\ children' = [children EXCEPT ![n] = <<>>, ![p] = Append(children[p], n)]
          /\ parent' = [parent EXCEPT ![n] = p]
          /\ completed' = [completed EXCEPT ![n] = FALSE]
          /\ attrs' = [attrs EXCEPT ![n] = init_attrs(text, now)]
          /\ next_id' = next_id + 1
          /\ last' = [op |-> "add_child", node |-> None, arg |-> 0, ret |-> TRUE]
          /\ UNCHANGED root_tasks
    /\ UNCHANGED appvars

(***************************************************************************)
(* Reading and writing TaskNode.is_completed on a node of the forest.  The *)
(* setter on a node with children only shows a warning.                    *)
(***************************************************************************)
GetCompleted(n) ==
    /\ Idle
    /\ n \in nodes
    /\ last' = [op |-> "get", node |-> n, arg |-> 0,
                ret |-> is_completed(children, completed, n)]
    /\ UNCHANGED <<nodes, children, parent, completed, task_id, attrs, root_tasks, next_id>>
    /\ UNCHANGED appvars

SetCompleted(n, v) ==
    /\ Idle
    /\ n \in nodes
    /\ completed' = set_is_completed(children, completed, n, v)
    /\ last' = [op |-> "set", node |-> n, arg |-> IF v THEN 1 ELSE 0, ret |-> TRUE]
    /\ UNCHANGED <<nodes, children, parent, task_id, attrs, root_tasks, next_id>>
    /\ UNCHANGED appvars

(***************************************************************************)
(* TaskNode.remove_self: asks the parent, when there is one, to drop the   *)
(* node from its children.  The node's own parent field is not touched.    *)
(***************************************************************************)
remove_self(ch, par, n) ==
    IF par[n] # None THEN remove_child(ch, par[n], n) ELSE ch

(***************************************************************************)
(* TaskNode.promote: declined (False, nothing touched) without a parent or *)
(* a grandparent; otherwise the node leaves its parent's children, is      *)
(* appended to the grandparent's and gets the grandparent as parent.       *)
(***************************************************************************)
promote_detach_first(ch, par, n) ==
    IF par[n] = None
    THEN [ret |-> FALSE, children |-> ch, parent |-> par]
    ELSE LET grandparent == par[par[n]]
             ch1 == remove_child(ch, par[n], n)
         IN IF grandparent = None
            THEN [ret |-> FALSE, children |-> ch1, parent |-> par]
            ELSE [ret |-> TRUE,
                  children |-> [ch1 EXCEPT ![grandparent] = Append(ch1[grandparent], n)],
                  parent |-> [par EXCEPT ![n] = grandparent]]

promote_parent_kept(ch, par, n) ==
    IF par[n] = None \/ par[par[n]] = None
    THEN [ret |-> FALSE, children |-> ch, parent |-> par]
    ELSE LET grandparent == par[par[n]]
             ch1 == remove_child(ch, par[n], n)
         IN [ret |-> TRUE,
             children |-> [ch1 EXCEPT ![grandparent] = Append(ch1[grandparent], n)],
             parent |-> par]

promote_keep_in_parent(ch, par, n) ==
    IF par[n] = None \/ par[par[n]] = None
    THEN [ret |-> FALSE, children |-> ch, parent |-> par]
    ELSE LET grandparent == par[par[n]]
         IN [ret |-> TRUE,
             children |-> [ch EXCEPT ![grandparent] = Append(ch[grandparent], n)],
             parent |-> [par EXCEPT ![n] = grandparent]]

promote(ch, par, n) ==
    IF par[n] = None \/ par[par[n]] = None
    THEN [ret |-> FALSE, children |-> ch, parent |-> par]
    ELSE LET grandparent == par[par[n]]
             ch1 == remove_child(ch, par[n], n)
         IN [ret |-> TRUE,
             children |-> [ch1 EXCEPT ![grandparent] = Append(ch1[grandparent], n)],
             parent |-> [par EXCEPT ![n] = grandparent]]

Promote(n) ==
    /\ Idle
    /\ n \in nodes
    /\ \E r \in {promote(children, parent, n)} :
          /\ children' = r.children
          /\ parent' = r.parent
          /\ last' = [op |-> "promote", node |-> n, arg |-> 0, ret |-> r.ret]
    /\ UNCHANGED <<nodes, completed, task_id, attrs, root_tasks, next_id>>
    /\ UNCHANGED appvars

(***************************************************************************)
(* TaskNode.demote(sibling_index): sibling_index counts from 0 in the      *)
(* parent's children as they are at the call.  Declined without a parent,  *)
(* for an index out of range, and when the index names the node itself.    *)
(***************************************************************************)
IndexInputs == (0 - 1)..(MaxNodes - 1)

demote_no_self_check(ch, par, n, i) ==
    IF par[n] = None \/ i < 0 \/ i >= Len(ch[par[n]])
    THEN [ret |-> FALSE, children |-> ch, parent |-> par]
    ELSE LET target_sibling == ch[par[n]][i + 1]
             ch1 == remove_child(ch, par[n], n)
         IN [ret |-> TRUE,
             children |-> [ch1 EXCEPT ![target_sibling] = Append(ch1[target_sibling], n)],
             parent |-> [par EXCEPT ![n] = target_sibling]]

demote_parent_kept(ch, par, n, i) ==
    IF par[n] = None \/ i < 0 \/ i >= Len(ch[par[n]])
    THEN [ret |-> FALSE, children |-> ch, parent |-> par]
    ELSE LET target_sibling == ch[par[n]][i + 1]
             ch1 == remove_child(ch, par[n], n)
         IN IF target_sibling = n
            THEN [ret |-> FALSE, children |-> ch, parent |-> par]
            ELSE [ret |-> TRUE,
                  children |-> [ch1 EXCEPT ![target_sibling] =
                                               Append(ch1[target_sibling], n)],
                  parent |-> par]

demote(ch, par, n, i) ==
    IF par[n] = None \/ i < 0 \/ i >= Len(ch[par[n]])
    THEN [ret |-> FALSE, children |-> ch, parent |-> par]
    ELSE LET target_sibling == ch[par[n]][i + 1]
             ch1 == remove_child(ch, par[n], n)
         IN IF target_sibling = n
            THEN [ret |-> FALSE, children |-> ch, parent |-> par]
            ELSE [ret |-> TRUE,
                  children |-> [ch1 EXCEPT ![target_sibling] =
                                               Append(ch1[target_sibling], n)],
                  parent |-> [par EXCEPT ![n] = target_sibling]]

Demote(n, i) ==
    /\ Idle
    /\ n \in nodes
    /\ \E r \in {demote(children, parent, n, i)} :
          /\ children' = r.children
          /\ parent' = r.parent
          /\ last' = [op |-> "demote", node |-> n, arg |-> i, ret |-> r.ret]
    /\ UNCHANGED <<nodes, completed, task_id, attrs, root_tasks, next_id>>
    /\ UNCHANGED appvars

(***************************************************************************)
(* The nodes of the forest: what is reachable from the root list through   *)
(* children lists (these are the nodes the page can render).               *)
(***************************************************************************)
SeqSet(s) == {s[i] : i \in 1..Len(s)}

Step(ch, S) == S \cup UNION {SeqSet(ch[m]) : m \in S}

RECURSIVE Closure(_, _, _)
Closure(ch, S, k) ==
    IF k = 0 \/ Step(ch, S) = S THEN S ELSE Closure(ch, Step(ch, S), k - 1)

Subtree(ch, n) == Closure(ch, {n}, MaxNodes)

Forest(ch, roots) == Closure(ch, SeqSet(roots), MaxNodes)

(***************************************************************************)
(* The nodes of a list of tasks in the order render_task and               *)
(* find_task_in_list visit them: a node, then its children's subtrees.     *)
(***************************************************************************)
RECURSIVE Preorder(_, _)
Preorder(ch, tasks) ==
    IF tasks = <<>>
    THEN <<>>
    ELSE <<Head(tasks)>> \o Preorder(ch, ch[Head(tasks)]) \o Preorder(ch, Tail(tasks))

ForestIds(ch, tid, roots) ==
    LET order == Preorder(ch, roots) IN [i \in 1..Len(order) |-> tid[order[i]]]

(***************************************************************************)
(* render_task, delete button: remove_self for a node with a parent,       *)
(* root_tasks.remove(task) for a root.                                     *)
(***************************************************************************)
delete_roots(roots, par, n) ==
    IF par[n] # None THEN roots ELSE RemoveFirst(roots, n)

Delete(n) ==
    /\ Idle
    /\ n \in nodes
    /\ children' = remove_self(children, parent, n)
    /\ root_tasks' = delete_roots(root_tasks, parent, n)
    /\ last' = [op |-> "delete", node |-> n, arg |-> 0, ret |-> TRUE]
    /\ UNCHANGED <<nodes, parent, completed, task_id, attrs, next_id>>
    /\ UNCHANGED appvars

(***************************************************************************)
(* datetime.isoformat / datetime.fromisoformat: the text of a time and     *)
(* back.  A record's created_at is such a text, never the time itself.     *)
(***************************************************************************)
isoformat(t) == [iso |-> t]

fromisoformat(text) == text.iso

(***************************************************************************)
(* TaskNode.to_dict: the record of a node, its children's records nested.  *)
(***************************************************************************)
RECURSIVE to_dict_derived(_, _, _, _, _)
to_dict_derived(ch, fl, tid, at, n) ==
    [task_id |-> tid[n],
     name |-> at[n].name,
     description |-> at[n].description,
     is_completed |-> is_completed(ch, fl, n),
     is_expanded |-> at[n].is_expanded,
     created_at |-> isoformat(at[n].created_at),
     children |-> [i \in 1..Len(ch[n]) |-> to_dict_derived(ch, fl, tid, at, ch[n][i])]]

RECURSIVE to_dict(_, _, _, _, _)
to_dict(ch, fl, tid, at, n) ==
    [task_id |-> tid[n],
     name |-> at[n].name,
     description |-> at[n].description,
     is_completed |-> fl[n],
     is_expanded |-> at[n].is_expanded,
     created_at |-> isoformat(at[n].created_at),
     children |-> [i \in 1..Len(ch[n]) |-> to_dict(ch, fl, tid, at, ch[n][i])]]

(***************************************************************************)
(* TaskNode.from_dict: builds the node of a record on heap H, then its     *)
(* children's nodes in order, each with the new node as parent.  H.used    *)
(* counts the objects built so far.  data["key"] raises KeyError for a     *)
(* missing key and datetime.fromisoformat(None) raises TypeError; only     *)
(* is_expanded is read with a default.  H.failed says an exception left    *)
(* the construction; nothing is built after it.                            *)
(***************************************************************************)
EmptyHeap(fresh) ==
    [used |-> 0,
     failed |-> FALSE,
     next_id |-> fresh,
     children |-> [n \in Nodes |-> <<>>],
     parent |-> [n \in Nodes |-> None],
     completed |-> [n \in Nodes |-> FALSE],
     task_id |-> [n \in Nodes |-> 0],
     attrs |-> [n \in Nodes |-> NoAttrs]]

Has(data, key) == key \in DOMAIN data

from_dict_raises(data) ==
    \/ ~Has(data, "name")
    \/ ~Has(data, "description")
    \/ ~Has(data, "is_completed")
    \/ ~Has(data, "task_id")
    \/ ~Has(data, "created_at")
    \/ ~Has(data, "children")

from_dict_is_expanded(data) ==
    IF Has(data, "is_expanded") THEN data.is_expanded ELSE FALSE

RECURSIVE from_dict(_, _, _), from_dict_list(_, _, _, _)
from_dict(data, par, H) ==
    IF H.failed \/ from_dict_raises(data)
    THEN [heap |-> [H EXCEPT !.failed = TRUE], node |-> None]
    ELSE LET task == H.used + 1
             id == init_task_id(data.task_id, H.next_id)
             H1 == [used |-> task,
                    failed |-> FALSE,
                    next_id |-> IF id = data.task_id THEN H.next_id ELSE H.next_id + 1,
                    children |-> H.children,
                    parent |-> [H.parent EXCEPT ![task] = par],
                    completed |-> [H.completed EXCEPT ![task] = data.is_completed],
                    task_id |-> [H.task_id EXCEPT ![task] = id],
                    attrs |-> [H.attrs EXCEPT ![task] =
                                  [name |-> data.name,
                                   description |-> data.description,
                                   is_expanded |-> from_dict_is_expanded(data),
                                   created_at |-> fromisoformat(data.created_at)]]]
             R == from_dict_list(data.children, 1, task, [heap |-> H1, made |-> <<>>])
         IN [heap |-> [R.heap EXCEPT !.children[task] = R.made], node |-> task]

from_dict_list(list, i, par, acc) ==
    IF i > Len(list)
    THEN acc
    ELSE LET r == from_dict(list[i], par, acc.heap)
         IN from_dict_list(list, i + 1, par,
                           [heap |-> r.heap, made |-> Append(acc.made, r.node)])

(***************************************************************************)
(* save_tasks_to_file and load_tasks_from_file.  A file that does not      *)
(* exist loads as no tasks; json.load of a file that is not JSON raises.   *)
(* Loading builds new objects: the objects of the forest before are gone.  *)
(***************************************************************************)
save_tasks(ch, fl, tid, at, tasks) ==
    [i \in 1..Len(tasks) |-> to_dict(ch, fl, tid, at, tasks[i])]

JsonFile(data) == [exists |-> TRUE, parses |-> TRUE, data |-> data]

save_tasks_to_file(ch, fl, tid, at, tasks) == JsonFile(save_tasks(ch, fl, tid, at, tasks))

load_tasks(data, fresh) ==
    from_dict_list(data, 1, None, [heap |-> EmptyHeap(fresh), made |-> <<>>])

load_tasks_from_file(file, fresh) ==
    IF ~file.exists
    THEN [heap |-> EmptyHeap(fresh), made |-> <<>>]
    ELSE IF ~file.parses
         THEN [heap |-> [EmptyHeap(fresh) EXCEPT !.failed = TRUE], made |-> <<>>]
         ELSE load_tasks(file.data, fresh)

Reload ==
    /\ Idle
    /\ root_tasks # <<>>
    /\ \E L \in {load_tasks(save_tasks(children, completed, task_id, attrs, root_tasks),
                            next_id)} :
          /\ nodes' = 1..L.heap.used
          /\ children' = L.heap.children
          /\ parent' = L.heap.parent
          /\ completed' = L.heap.completed
          /\ task_id' = L.heap.task_id
          /\ attrs' = L.heap.attrs
          /\ root_tasks' = L.made
          /\ next_id' = L.heap.next_id
    /\ last' = [op |-> "reload", node |-> None, arg |-> 0, ret |-> TRUE]
    /\ UNCHANGED appvars

(***************************************************************************)
(* st.rerun() / the end of the script run: the handler's locals are gone,  *)
(* so the call record is dropped and every object that is no longer        *)
(* reachable from st.session_state.root_tasks is garbage.                  *)
(***************************************************************************)
Rerun ==
    /\ ~Idle
    /\ \E live \in {Forest(children, root_tasks)} :
          /\ nodes' = live
          /\ children' = [n \in Nodes |-> IF n \in live THEN children[n] ELSE <<>>]
          /\ parent' = [n \in Nodes |-> IF n \in live THEN parent[n] ELSE None]
          /\ completed' = [n \in Nodes |-> IF n \in live THEN completed[n] ELSE FALSE]
          /\ task_id' = [n \in Nodes |-> IF n \in live THEN task_id[n] ELSE 0]
          /\ attrs' = [n \in Nodes |-> IF n \in live THEN attrs[n] ELSE NoAttrs]
    /\ last' = NoCall
    /\ UNCHANGED <<root_tasks, next_id>>
    /\ UNCHANGED appvars

DefaultText == [name |-> "task", description |-> ""]

Next ==
    \/ AddRoot(DefaultText)
    \/ \E p \in Nodes : AddChild(p, DefaultText)
    \/ \E n \in Nodes : GetCompleted(n)
    \/ \E n \in Nodes, v \in BOOLEAN : SetCompleted(n, v)
    \/ \E n \in Nodes : Promote(n)
    \/ \E n \in Nodes, i \in IndexInputs : Demote(n, i)
    \/ \E n \in Nodes : Delete(n)
    \/ Reload
    \/ Rerun

Spec == Init /\ [][Next]_vars

(***************************************************************************)
(* TaskNode.toggle_expand, behind the expand button of a node with         *)
(* children.                                                               *)
(***************************************************************************)
toggle_expand(at, n) == [at EXCEPT ![n].is_expanded = ~at[n].is_expanded]

ToggleExpand(n) ==
    /\ Idle
    /\ n \in nodes
    /\ children[n] # <<>>
    /\ attrs' = toggle_expand(attrs, n)
    /\ last' = [op |-> "toggle_expand", node |-> n, arg |-> 0, ret |-> TRUE]
    /\ UNCHANGED <<nodes, children, parent, completed, task_id, root_tasks, next_id>>
    /\ UNCHANGED appvars

(***************************************************************************)
(* uuid4 never returns an id that is in use: after tasks were built from   *)
(* records, the next fresh number lies above every id they brought.        *)
(***************************************************************************)
Max(a, b) == IF a >= b THEN a ELSE b

RECURSIVE MaxId(_, _)
MaxId(tid, k) == IF k = 0 THEN 0 ELSE Max(tid[k], MaxId(tid, k - 1))

uuid4_after(H) == Max(H.next_id, MaxId(H.task_id, H.used) + 1)

(***************************************************************************)
(* The files a user can upload to the import widget: records written by    *)
(* to_dict, records without one of the keys, and a file that is not JSON.  *)
(***************************************************************************)
Record(id, nm, done, kids) ==
    [task_id |-> id, name |-> nm, description |-> "", is_completed |-> done,
     is_expanded |-> TRUE, created_at |-> isoformat(0), children |-> kids]

Lacking(data, key) == [k \in DOMAIN data \ {key} |-> data[k]]

NotJson == [exists |-> TRUE, parses |-> FALSE, data |-> <<>>]

Uploads ==
    << JsonFile(<<Record(1, "x", FALSE, <<Record(2, "y", TRUE, <<>>)>>)>>),
       JsonFile(<<Record(1, "x", FALSE, <<Lacking(Record(2, "y", TRUE, <<>>), "is_expanded")>>)>>),
       JsonFile(<<Record(1, "x", FALSE, <<Lacking(Record(2, "y", TRUE, <<>>), "created_at")>>)>>),
       JsonFile(<<Record(1, "x", FALSE, <<>>), Lacking(Record(2, "y", TRUE, <<>>), "name")>>),
       NotJson,
       JsonFile(<<>>) >>

(***************************************************************************)
(* main_app runs its handlers for a logged-in session that holds           *)
(* root_tasks and whose last activity is not older than SESSION_TIMEOUT;  *)
(* it then records the activity.                                           *)
(***************************************************************************)
SESSION_TIMEOUT == 1800

AutosaveInterval == 30

NotSet == 0 - 1

check_session_timeout(sess, t) == t - sess.last_activity > SESSION_TIMEOUT

Running ==
    /\ session.authenticated
    /\ session.has_root_tasks
    /\ ~check_session_timeout(session, now)

update_last_activity(sess, t) == [sess EXCEPT !.last_activity = t]

(***************************************************************************)
(* save_tasks_to_file(username, tasks) on the users' files.                *)
(***************************************************************************)
saved_skipped(st, u, ch, fl, tid, at, tasks) == st

saved(st, u, ch, fl, tid, at, tasks) ==
    [st EXCEPT ![u] = save_tasks_to_file(ch, fl, tid, at, tasks)]

(***************************************************************************)
(* The file after save_tasks_to_file tried to write it.  When the write    *)
(* raises, the file is as it was (open failed) or cut short (json.dump     *)
(* failed after open(..., "w") emptied it), and the exception leaves the   *)
(* handler.                                                                *)
(***************************************************************************)
write_outcomes(st, u, target) ==
    IF disk_ok THEN {target} ELSE {st, [st EXCEPT ![u] = NotJson]}

(***************************************************************************)
(* Import widget: the forest is replaced and saved only when every record  *)
(* of the upload was built; any exception is caught and shown.             *)
(***************************************************************************)
import_tasks(upload, fresh) ==
    IF ~upload.parses
    THEN [heap |-> [EmptyHeap(fresh) EXCEPT !.failed = TRUE], made |-> <<>>]
    ELSE load_tasks(upload.data, fresh)

ImportTasksPartial(k) ==
    /\ Idle
    /\ Running
    /\ \E L \in {import_tasks(Uploads[k], next_id)} :
          /\ nodes' = 1..L.heap.used
          /\ children' = L.heap.children
          /\ parent' = L.heap.parent
          /\ completed' = L.heap.completed
          /\ task_id' = L.heap.task_id
          /\ attrs' = L.heap.attrs
          /\ root_tasks' = SelectSeq(L.made, LAMBDA n : n # None)
          /\ next_id' = uuid4_after(L.heap)
          /\ store' = IF L.heap.failed
                      THEN store
                      ELSE [store EXCEPT ![session.username] =
                               save_tasks_to_file(L.heap.children, L.heap.completed,
                                                  L.heap.task_id, L.heap.attrs, L.made)]
          /\ last' = [op |-> "import", node |-> None, arg |-> k, ret |-> ~L.heap.failed]
    /\ session' = update_last_activity(session, now)
    /\ UNCHANGED <<now, owner, users, disk_ok>>

ImportTasks(k) ==
    /\ Idle
    /\ Running
    /\ \E L \in {import_tasks(Uploads[k], next_id)} :
          IF L.heap.failed
          THEN /\ last' = [op |-> "import", node |-> None, arg |-> k, ret |-> FALSE]
               /\ UNCHANGED <<nodes, children, parent, completed, task_id, attrs,
                              root_tasks, next_id, store>>
          ELSE /\ nodes' = 1..L.heap.used
               /\ children' = L.heap.children
               /\ parent' = L.heap.parent
               /\ completed' = L.heap.completed
               /\ task_id' = L.heap.task_id
               /\ attrs' = L.heap.attrs
               /\ root_tasks' = L.made
               /\ next_id' = uuid4_after(L.heap)
               /\ store' \in write_outcomes(store, session.username,
                               saved(store, session.username, L.heap.children,
                                     L.heap.completed, L.heap.task_id, L.heap.attrs,
                                     L.made))
               /\ last' = [op |-> "import", node |-> None, arg |-> k, ret |-> disk_ok]
    /\ session' = update_last_activity(session, now)
    /\ UNCHANGED <<now, owner, users, disk_ok>>

(***************************************************************************)
(* The serializer exercised on trees with different texts, flags and       *)
(* expand states.                                                          *)
(***************************************************************************)
TextInputs == {[name |-> "a", description |-> ""], [name |-> "b", description |-> "d"]}

NextSerial ==
    \/ \E text \in TextInputs : AddRoot(text)
    \/ \E p \in Nodes, text \in TextInputs : AddChild(p, text)
    \/ \E n \in Nodes, v \in BOOLEAN : SetCompleted(n, v)
    \/ \E n \in Nodes : ToggleExpand(n)
    \/ Reload
    \/ Rerun

SpecSerial == Init /\ [][NextSerial]_vars

(***************************************************************************)
(* A browser session from its first script run: nobody is logged in,       *)
(* st.session_state has no root_tasks, and each user's task file is        *)
(* absent, not JSON, or holds one task saved earlier under that name.      *)
(***************************************************************************)
NoUser == ""

MaxClock == 1

OwnRecord(u) == Record(IF u = "alice" THEN 1 ELSE 2, u, FALSE, <<>>)

InitApp ==
    /\ nodes = {}
    /\ children = [n \in Nodes |-> <<>>]
    /\ parent = [n \in Nodes |-> None]
    /\ completed = [n \in Nodes |-> FALSE]
    /\ task_id = [n \in Nodes |-> 0]
    /\ attrs = [n \in Nodes |-> NoAttrs]
    /\ root_tasks = <<>>
    /\ next_id = 1
    /\ last = NoCall
    /\ store \in [Users -> {NoFile, NotJson} \cup {JsonFile(<<OwnRecord(u)>>) : u \in Users}]
    /\ \A u \in Users : store[u].data # <<>> => store[u].data = <<OwnRecord(u)>>
    /\ session = [authenticated |-> FALSE, username |-> NoUser, has_root_tasks |-> FALSE,
                  unsaved_changes |-> FALSE, last_save_time |-> NotSet,
                  last_activity |-> NotSet]
    /\ now = 0
    /\ owner = NoUser
    /\ users = InitUsers
    /\ disk_ok = TRUE

(***************************************************************************)
(* Time passes between script runs.                                        *)
(***************************************************************************)
Tick(d) ==
    /\ Idle
    /\ now < MaxClock
    /\ now' = now + d
    /\ UNCHANGED <<nodes, children, parent, completed, task_id, attrs, root_tasks, next_id,
                   last, store, session, owner, users, disk_ok>>

(***************************************************************************)
(* show_login_page with a correct password, the logout button of main,     *)
(* and the script run that finds the session timed out.  None of them      *)
(* touches st.session_state.root_tasks.                                    *)
(***************************************************************************)
Login(u) ==
    /\ Idle
    /\ ~session.authenticated
    /\ session' = [session EXCEPT !.authenticated = TRUE, !.username = u,
                                  !.last_activity = now]
    /\ last' = [op |-> "login", node |-> None, arg |-> 0, ret |-> TRUE]
    /\ UNCHANGED <<nodes, children, parent, completed, task_id, attrs, root_tasks, next_id,
                   store, now, owner, users, disk_ok>>

Logout ==
    /\ Idle
    /\ session.authenticated
    /\ session' = [session EXCEPT !.authenticated = FALSE, !.username = NoUser]
    /\ last' = [op |-> "logout", node |-> None, arg |-> 0, ret |-> TRUE]
    /\ UNCHANGED <<nodes, children, parent, completed, task_id, attrs, root_tasks, next_id,
                   store, now, owner, users, disk_ok>>

SessionTimeout ==
    /\ Idle
    /\ session.authenticated
    /\ check_session_timeout(session, now)
    /\ session' = [session EXCEPT !.authenticated = FALSE]
    /\ last' = [op |-> "timeout", node |-> None, arg |-> 0, ret |-> TRUE]
    /\ UNCHANGED <<nodes, children, parent, completed, task_id, attrs, root_tasks, next_id,
                   store, now, owner, users, disk_ok>>

(***************************************************************************)
(* main_app in a session without root_tasks: the user's file is loaded.    *)
(* load_tasks_from_file catches nothing, so an exception of json.load or   *)
(* from_dict ends the script run before root_tasks is assigned.            *)
(***************************************************************************)
init_last_save_time(sess, t) ==
    IF sess.last_save_time = NotSet THEN [sess EXCEPT !.last_save_time = t] ELSE sess

OpenTasks ==
    /\ Idle
    /\ session.authenticated
    /\ ~session.has_root_tasks
    /\ ~check_session_timeout(session, now)
    /\ \E L \in {load_tasks_from_file(store[session.username], next_id)},
          sess \in {init_last_save_time(update_last_activity(session, now), now)} :
          IF L.heap.failed
          THEN /\ session' = sess
               /\ last' = [op |-> "open", node |-> None, arg |-> 0, ret |-> FALSE]
               /\ UNCHANGED <<nodes, children, parent, completed, task_id, attrs,
                              root_tasks, next_id, owner>>
          ELSE /\ nodes' = 1..L.heap.used
               /\ children' = L.heap.children
               /\ parent' = L.heap.parent
               /\ completed' = L.heap.completed
               /\ task_id' = L.heap.task_id
               /\ attrs' = L.heap.attrs
               /\ root_tasks' = L.made
               /\ next_id' = uuid4_after(L.heap)
               /\ session' = [sess EXCEPT !.has_root_tasks = TRUE]
               /\ owner' = session.username
               /\ last' = [op |-> "open", node |-> None, arg |-> 0, ret |-> TRUE]
    /\ UNCHANGED <<store, now, users, disk_ok>>

(***************************************************************************)
(* The handlers of main_app.  Each one that changed the structure calls    *)
(* save_tasks_to_file(username, root_tasks) before st.rerun(); none of     *)
(* them assigns st.session_state.unsaved_changes.                          *)
(***************************************************************************)
MaxCreated == 3

CanCreateTask == CanCreate /\ next_id <= MaxCreated

AddRootTask(text) ==
    /\ Idle
    /\ Running
    /\ CanCreateTask
    /\ LET n == NewNode
       IN /\ nodes' = nodes \cup {n}
          /\ task_id' = [task_id EXCEPT ![n] = init_task_id(None, next_id)]
          /\ children' = [children EXCEPT ![n] = <<>>]
          /\ parent' = [parent EXCEPT ![n] = None]
          /\ completed' = [completed EXCEPT ![n] = FALSE]
          /\ attrs' = [attrs EXCEPT ![n] = init_attrs(text, now)]
          /\ root_tasks' = Append(root_tasks, n)
          /\ next_id' = next_id + 1
    /\ store' \in write_outcomes(store, session.username,
                    saved(store, session.username, children', completed', task_id', attrs',
                          root_tasks'))
    /\ session' = update_last_activity(session, now)
    /\ last' = [op |-> "add_root", node |-> None, arg |-> 0, ret |-> disk_ok]
    /\ UNCHANGED <<now, owner, users, disk_ok>>

AddChildTask(p, text) ==
    /\ Idle
    /\ Running
    /\ p \in nodes
    /\ CanCreateTask
    /\ LET n == NewNode
       IN /\ nodes' = nodes \cup {n}
          /\ task_id' = [task_id EXCEPT ![n] = init_task_id(None, next_id)]
          /\ children' = [children EXCEPT ![n] = <<>>, ![p] = Append(children[p], n)]
          /\ parent' = [parent EXCEPT ![n] = p]
          /\ completed' = [completed EXCEPT ![n] = FALSE]
          /\ attrs' = [attrs EXCEPT ![n] = init_attrs(text, now), ![p].is_expanded = TRUE]
          /\ next_id' = next_id + 1
    /\ store' \in write_outcomes(store, session.username,
                    saved(store, session.username, children', completed', task_id', attrs',
                          root_tasks))
    /\ session' = update_last_activity(session, now)
    /\ last' = [op |-> "add_child", node |-> p, arg |-> 0, ret |-> disk_ok]
    /\ UNCHANGED <<root_tasks, now, owner, users, disk_ok>>

DeleteTask(n) ==
    /\ Idle
    /\ Running
    /\ n \in nodes
    /\ children' = remove_self(children, parent, n)
    /\ root_tasks' = delete_roots(root_tasks, parent, n)
    /\ store' \in write_outcomes(store, session.username,
                    saved(store, session.username, children', completed, task_id, attrs,
                          root_tasks'))
    /\ session' = update_last_activity(session, now)
    /\ last' = [op |-> "delete", node |-> n, arg |-> 0, ret |-> disk_ok]
    /\ UNCHANGED <<nodes, parent, completed, task_id, attrs, next_id, now, owner, users, disk_ok>>

PromoteTask(n) ==
    /\ Idle
    /\ Running
    /\ n \in nodes
    /\ parent[n] # None
    /\ \E r \in {promote(children, parent, n)} :
          /\ children' = r.children
          /\ parent' = r.parent
          /\ store' \in IF r.ret
                        THEN write_outcomes(store, session.username,
                                 saved(store, session.username, r.children, completed,
                                       task_id, attrs, root_tasks))
                        ELSE {store}
          /\ last' = [op |-> "promote", node |-> n, arg |-> 0, ret |-> r.ret /\ disk_ok]
    /\ session' = update_last_activity(session, now)
    /\ UNCHANGED <<nodes, completed, task_id, attrs, root_tasks, next_id, now, owner, users, disk_ok>>

DemoteTask(n, target_sibling) ==
    /\ Idle
    /\ Running
    /\ n \in nodes
    /\ parent[n] # None
    /\ target_sibling # n
    /\ InSeq(target_sibling, children[parent[n]])
    /\ \E i \in {IndexOf(target_sibling, children[parent[n]]) - 1} :
       \E r \in {demote(children, parent, n, i)} :
          /\ children' = r.children
          /\ parent' = r.parent
          /\ store' \in IF r.ret
                        THEN write_outcomes(store, session.username,
                                 saved(store, session.username, r.children, completed,
                                       task_id, attrs, root_tasks))
                        ELSE {store}
          /\ last' = [op |-> "demote", node |-> n, arg |-> i, ret |-> r.ret /\ disk_ok]
    /\ session' = update_last_activity(session, now)
    /\ UNCHANGED <<nodes, completed, task_id, attrs, root_tasks, next_id, now, owner, users, disk_ok>>

SaveNow ==
    /\ Idle
    /\ Running
    /\ store' \in write_outcomes(store, session.username,
                    saved(store, session.username, children, completed, task_id, attrs,
                          root_tasks))
    /\ session' = update_last_activity(session, now)
    /\ last' = [op |-> "save_now", node |-> None, arg |-> 0, ret |-> disk_ok]
    /\ UNCHANGED <<nodes, children, parent, completed, task_id, attrs, root_tasks, next_id,
                   now, owner, users, disk_ok>>

(***************************************************************************)
(* set_task_completed(task_id, completed), the checkbox callback: the task *)
(* is looked up by id; when one is found the setter is called and          *)
(* unsaved_changes is set, whatever the setter did.  Nothing is saved.     *)
(***************************************************************************)
SetTaskCompleted(id, v) ==
    /\ Idle
    /\ session.authenticated
    /\ session.has_root_tasks
    /\ \E task \in {find_task_in_list(children, task_id, root_tasks, id)} :
          /\ completed' = IF task # None
                          THEN set_is_completed(children, completed, task, v)
                          ELSE completed
          /\ session' = IF task # None
                        THEN [session EXCEPT !.unsaved_changes = TRUE]
                        ELSE session
          /\ last' = [op |-> "set_task_completed", node |-> task,
                      arg |-> id, ret |-> task # None]
    /\ UNCHANGED <<nodes, children, parent, task_id, attrs, root_tasks, next_id,
                   store, now, owner, users, disk_ok>>

(***************************************************************************)
(* A script run that draws the page.  The autosave test stands at the top  *)
(* of render_task, which is called for the tasks of a forest that is not   *)
(* empty: it compares the clock with last_save_time and nothing else.      *)
(***************************************************************************)
autosave_due_never(sess, t, tasks) == FALSE

autosave_due(sess, t, tasks) ==
    tasks # <<>> /\ t - sess.last_save_time > AutosaveInterval

Render ==
    /\ Idle
    /\ Running
    /\ \E due \in {autosave_due(session, now, root_tasks)} :
          /\ store' \in IF due
                        THEN write_outcomes(store, session.username,
                                 saved(store, session.username, children, completed,
                                       task_id, attrs, root_tasks))
                        ELSE {store}
          /\ session' = [update_last_activity(session, now) EXCEPT
                            !.last_save_time = IF due /\ disk_ok THEN now ELSE @]
          /\ last' = [op |-> "render", node |-> None, arg |-> 0, ret |-> due /\ disk_ok]
    /\ UNCHANGED <<nodes, children, parent, completed, task_id, attrs, root_tasks, next_id,
                   now, owner, users, disk_ok>>

(***************************************************************************)
(* The handlers of a logged-in session, started as Init starts it.         *)
(***************************************************************************)
Ids == 1..MaxIds

NextApp ==
    \/ AddRootTask(DefaultText)
    \/ \E p \in Nodes : AddChildTask(p, DefaultText)
    \/ \E n \in Nodes : DeleteTask(n)
    \/ \E n \in Nodes : PromoteTask(n)
    \/ \E n \in Nodes, t \in Nodes : DemoteTask(n, t)
    \/ SaveNow
    \/ \E id \in Ids, v \in BOOLEAN : SetTaskCompleted(id, v)
    \/ \E k \in 1..Len(Uploads) : ImportTasks(k)
    \/ Rerun

SpecApp == Init /\ [][NextApp]_vars

(***************************************************************************)
(* A browser session from its first script run, with the clock: logging    *)
(* in and out, timing out, loading, adding and ticking tasks, drawing.     *)
(***************************************************************************)
TickInputs == {AutosaveInterval + 1, SESSION_TIMEOUT + 1}

NextSession ==
    \/ \E d \in TickInputs : Tick(d)
    \/ \E u \in Users : Login(u)
    \/ Logout
    \/ SessionTimeout
    \/ OpenTasks
    \/ AddRootTask(DefaultText)
    \/ \E id \in Ids, v \in BOOLEAN : SetTaskCompleted(id, v)
    \/ Render
    \/ Rerun

SpecSession == InitApp /\ [][NextSession]_vars

(***************************************************************************)
(* A logged-in session on a disk whose writes fail for a while: the        *)
(* open() or json.dump of save_tasks_to_file raises OSError.               *)
(***************************************************************************)
DiskFault ==
    /\ Idle
    /\ disk_ok' = ~disk_ok
    /\ UNCHANGED <<nodes, children, parent, completed, task_id, attrs, root_tasks, next_id,
                   last, store, session, now, owner, users>>

NextDisk ==
    \/ DiskFault
    \/ Tick(AutosaveInterval + 1)
    \/ AddRootTask(DefaultText)
    \/ \E n \in Nodes : DeleteTask(n)
    \/ \E id \in Ids, v \in BOOLEAN : SetTaskCompleted(id, v)
    \/ SaveNow
    \/ Render
    \/ Rerun

SpecDisk == Init /\ [][NextDisk]_vars

(***************************************************************************)
(* A session that keeps running: time passes in steps that make the        *)
(* autosave test of render_task true, the page is drawn again and again,   *)
(* and a script run that has started finishes.  Checkbox clicks and the    *)
(* add forms happen when the user chooses.                                 *)
(***************************************************************************)
MaxTicks == 2

MaxLiveTasks == 2

TickLive ==
    /\ Idle
    /\ now < MaxTicks * (AutosaveInterval + 1)
    /\ now' = now + AutosaveInterval + 1
    /\ UNCHANGED <<nodes, children, parent, completed, task_id, attrs, root_tasks, next_id,
                   last, store, session, owner, users, disk_ok>>

NextLive ==
    \/ TickLive
    \/ next_id <= MaxLiveTasks /\ AddRootTask(DefaultText)
    \/ next_id <= MaxLiveTasks /\ \E p \in Nodes : AddChildTask(p, DefaultText)
    \/ \E id \in 1..MaxLiveTasks, v \in BOOLEAN : SetTaskCompleted(id, v)
    \/ Render
    \/ Rerun

SpecLive ==
    /\ Init
    /\ [][NextLive]_vars
    /\ SF_vars(TickLive)
    /\ SF_vars(Render)
    /\ WF_vars(Rerun)

(***************************************************************************)
(* The accounts.  The field password of a user record stands for the pair  *)
(* (salt, hashed_password): hash_password with the stored salt gives the   *)
(* stored hash exactly for the password the record was made with.          *)
(*                                                                         *)
(* UserManager.verify_user(username, password): the result and the users   *)
(* it leaves in users.json.                                                *)
(***************************************************************************)
MAX_LOGIN_ATTEMPTS == 5

verify_user_unlocked(us, username, password) ==
    IF username \notin DOMAIN us
    THEN [ret |-> FALSE, users |-> us]
    ELSE IF password = us[username].password
         THEN [ret |-> TRUE, users |-> [us EXCEPT ![username].failed_attempts = 0]]
         ELSE [ret |-> FALSE,
               users |-> [us EXCEPT ![username].failed_attempts = @ + 1,
                                    ![username].locked =
                                        us[username].failed_attempts + 1 >= MAX_LOGIN_ATTEMPTS]]

verify_user(us, username, password) ==
    IF username \notin DOMAIN us
    THEN [ret |-> FALSE, users |-> us]
    ELSE IF us[username].locked
    THEN [ret |-> FALSE, users |-> us]
    ELSE IF password = us[username].password
    THEN [ret |-> TRUE, users |-> [us EXCEPT ![username].failed_attempts = 0]]
    ELSE LET failed_attempts == us[username].failed_attempts + 1
         IN [ret |-> FALSE,
             users |-> [us EXCEPT ![username].failed_attempts = failed_attempts,
                                  ![username].locked =
                                      IF failed_attempts >= MAX_LOGIN_ATTEMPTS
                                      THEN TRUE ELSE @]]

is_locked(us, username) == username \in DOMAIN us /\ us[username].locked

(***************************************************************************)
(* show_login_page, the form submitted with any name and password: a       *)
(* locked account is turned away before verify_user is called.             *)
(***************************************************************************)
LoginNames == Accounts \cup {"carol"}

LoginAttempt(username, password) ==
    /\ Idle
    /\ ~session.authenticated
    /\ \E v \in {IF is_locked(users, username)
                 THEN [ret |-> FALSE, users |-> users]
                 ELSE verify_user(users, username, password)} :
          /\ users' = v.users
          /\ session' = IF v.ret
                        THEN [session EXCEPT !.authenticated = TRUE,
                                             !.username = username,
                                             !.last_activity = now]
                        ELSE session
          /\ last' = [op |-> "login_attempt", node |-> None,
                      arg |-> [username |-> username, password |-> password],
                      ret |-> v.ret]
    /\ UNCHANGED <<nodes, children, parent, completed, task_id, attrs, root_tasks, next_id,
                   store, now, owner, disk_ok>>

(***************************************************************************)
(* show_user_management, open to the user named admin: the reset-password  *)
(* button of a user (a new random password) and the unlock button, which   *)
(* is drawn for a locked user only.                                        *)
(***************************************************************************)
ResetPassword(username, new_password) ==
    /\ Idle
    /\ session.authenticated
    /\ session.username = "admin"
    /\ username \in DOMAIN users
    /\ users' = [users EXCEPT ![username] = [password |-> new_password,
                                             failed_attempts |-> 0,
                                             locked |-> FALSE]]
    /\ last' = [op |-> "reset_password", node |-> None,
                arg |-> [username |-> username, password |-> new_password], ret |-> TRUE]
    /\ UNCHANGED <<nodes, children, parent, completed, task_id, attrs, root_tasks, next_id,
                   store, session, now, owner, disk_ok>>

UnlockUser(username) ==
    /\ Idle
    /\ session.authenticated
    /\ session.username = "admin"
    /\ is_locked(users, username)
    /\ users' = [users EXCEPT ![username].locked = FALSE,
                              ![username].failed_attempts = 0]
    /\ last' = [op |-> "unlock", node |-> None,
                arg |-> [username |-> username, password |-> ""], ret |-> TRUE]
    /\ UNCHANGED <<nodes, children, parent, completed, task_id, attrs, root_tasks, next_id,
                   store, session, now, owner, disk_ok>>

InitAccounts == InitApp /\ store = [u \in Users |-> NoFile]

NextAccounts ==
    \/ \E username \in LoginNames, password \in Passwords : LoginAttempt(username, password)
    \/ Logout
    \/ \E username \in Accounts, new_password \in Passwords :
          ResetPassword(username, new_password)
    \/ \E username \in Accounts : UnlockUser(username)
    \/ Rerun

SpecAccounts == InitAccounts /\ [][NextAccounts]_vars

(***************************************************************************)
(* The effective completion of the specification, stated over the leaves:  *)
(* a node is done when every leaf of its subtree has its flag set.         *)
(***************************************************************************)
AllLeavesDone(n) ==
    \A l \in Subtree(children, n) : children[l] = <<>> => completed[l]

(* C1: every read of is_completed on a node with children yields the AND   *)
(* of its children's effective completion in the tree as it is at the      *)
(* read, and on a node without children its stored flag.                   *)
C1_DerivedCompletion ==
    last.op = "get" =>
        last.ret = IF children[last.node] = <<>>
                   THEN completed[last.node]
                   ELSE \A i \in 1..Len(children[last.node]) :
                            AllLeavesDone(children[last.node][i])

C1_Witness ==
    /\ last.op = "get"
    /\ last.ret
    /\ \E i \in 1..Len(children[last.node]) :
          children[children[last.node][i]] # <<>>

(* C2: setting is_completed on a node that has a child leaves every stored *)
(* flag as it was.                                                         *)
C2_SetterRefusedOnParent ==
    [][(last'.op = "set" /\ children[last'.node] # <<>>) => completed' = completed]_vars

C2_Witness ==
    /\ last.op = "set"
    /\ children[last.node] # <<>>
    /\ ~completed[last.node]

(* C3: for all objects p and c, detached ones included, c.parent is p      *)
(* exactly when c is in p.children.                                        *)
C3_ParentConsistency ==
    \A p \in nodes, c \in nodes : (parent[c] = p) <=> InSeq(c, children[p])

(* C4: in every step the task_ids of the forest are pairwise distinct, a   *)
(* node that lives on keeps its task_id, and the forest rebuilt from its   *)
(* saved record has the same task_ids at the same places.                  *)
C4_IdsUniqueAndPreserved ==
    [][/\ \A F \in {Forest(children', root_tasks')} :
              \A a \in F, b \in F : task_id'[a] = task_id'[b] => a = b
       /\ last'.op = "reload" =>
             ForestIds(children', task_id', root_tasks')
                 = ForestIds(children, task_id, root_tasks)
       /\ last'.op # "reload" =>
             \A n \in nodes \cap nodes' : task_id'[n] = task_id[n]]_vars

C4_Witness ==
    /\ last.op = "reload"
    /\ Cardinality(nodes) >= 2
    /\ \E n \in nodes : task_id[n] # n

(* C5: no node is below itself through children lists or above itself      *)
(* through parent links, and every node of the forest is held exactly once *)
(* by the root list and all children lists together.                       *)
RECURSIVE Ancestors(_, _, _)
Ancestors(par, n, k) ==
    IF k = 0 \/ par[n] = None
    THEN {}
    ELSE {par[n]} \cup Ancestors(par, par[n], k - 1)

Occurrences(n) ==
    Cardinality({i \in 1..Len(root_tasks) : root_tasks[i] = n})
    + Cardinality({pi \in UNION {{<<p, i>> : i \in 1..Len(children[p])} : p \in nodes} :
                      children[pi[1]][pi[2]] = n})

C5_ContainmentIsForest ==
    /\ \A n \in nodes : n \notin Closure(children, SeqSet(children[n]), MaxNodes)
    /\ \A n \in nodes : n \notin Ancestors(parent, n, MaxNodes)
    /\ \A n \in Forest(children, root_tasks) : Occurrences(n) = 1

C5_Witness ==
    /\ last.op = "promote"
    /\ last.ret
    /\ Len(children[parent[last.node]]) >= 2

Without(seq, n) == SelectSeq(seq, LAMBDA x : x # n)

SubtreeKept(n) ==
    \A d \in Subtree(children, n) :
        /\ children'[d] = children[d]
        /\ completed'[d] = completed[d]
        /\ task_id'[d] = task_id[d]

(* C6: promote on a node without a parent, or whose parent has none,       *)
(* returns False and changes no children list, no parent field and not the *)
(* root list.                                                              *)
C6_PromoteDeclinedNearRoot ==
    [][(/\ last'.op = "promote"
        /\ (parent[last'.node] = None \/ parent[parent[last'.node]] = None))
       => /\ ~last'.ret
          /\ children' = children
          /\ parent' = parent
          /\ root_tasks' = root_tasks]_vars

C6_Witness ==
    /\ last.op = "promote"
    /\ ~last.ret
    /\ parent[last.node] # None
    /\ Len(children[parent[last.node]]) >= 2

C8_DemoteDeclined ==
    [][(/\ last'.op = "demote"
        /\ \/ parent[last'.node] = None
           \/ last'.arg < 0
           \/ last'.arg >= Len(children[parent[last'.node]])
           \/ children[parent[last'.node]][last'.arg + 1] = last'.node)
       => /\ ~last'.ret
          /\ children' = children
          /\ parent' = parent
          /\ root_tasks' = root_tasks
          /\ completed' = completed]_vars

C8_Witness ==
    /\ last.op = "demote"
    /\ ~last.ret
    /\ parent[last.node] # None
    /\ last.arg >= 0
    /\ last.arg < Len(children[parent[last.node]])
    /\ children[parent[last.node]][last.arg + 1] = last.node

C10_DeleteRemovesSubtree ==
    [][last'.op = "delete"
       => \A m \in Forest(children, root_tasks) :
              find_task_in_list(children', task_id', root_tasks', task_id[m])
                  = IF m \in Subtree(children, last'.node) THEN None ELSE m]_vars

C10_Witness ==
    /\ last.op = "delete"
    /\ children[last.node] # <<>>
    /\ root_tasks # <<>>
    /\ find_task_in_list(children, task_id, root_tasks, task_id[last.node]) = None

(***************************************************************************)
(* C11: whether a node is a leaf is decided by its children list at the    *)
(* moment of the call.  (a) A write of v on a node whose list is empty     *)
(* stores v, a write on a node whose list is not empty stores nothing.     *)
(* (b) Right after a delete, promote or demote emptied a node's list, a    *)
(* read of that node returns its stored flag and a write of either value   *)
(* is stored.  (c) Right after add_child or demote gave a leaf its first   *)
(* child, a write of either value changes no stored flag.                  *)
(***************************************************************************)
LostLastChild(p) == p \in nodes /\ children[p] # <<>> /\ children'[p] = <<>>

GainedFirstChild(p) == p \in nodes /\ children[p] = <<>> /\ children'[p] # <<>>

C11_LeafStatusIsCurrent ==
    [][/\ last'.op = "set" =>
            completed' = IF children[last'.node] = <<>>
                         THEN [completed EXCEPT ![last'.node] = (last'.arg = 1)]
                         ELSE completed
       /\ \A p \in Nodes :
            (last'.op \in {"delete", "promote", "demote"} /\ LostLastChild(p)) =>
                /\ is_completed(children', completed', p) = completed'[p]
                /\ \A v \in BOOLEAN :
                     set_is_completed(children', completed', p, v)[p] = v
       /\ \A p \in Nodes :
            (last'.op \in {"add_child", "demote"} /\ GainedFirstChild(p)) =>
                \A v \in BOOLEAN :
                    set_is_completed(children', completed', p, v) = completed']_vars

C11_Witness ==
    /\ last.op = "delete"
    /\ parent[last.node] \in nodes
    /\ children[parent[last.node]] = <<>>
    /\ ~completed[parent[last.node]]
    /\ is_completed(children, completed, parent[last.node]) = FALSE

(***************************************************************************)
(* C12: saving a forest and loading it back gives new objects that match   *)
(* the old ones position by position in visiting order: the same task_id,  *)
(* name, description, stored flag (also where it differs from the derived  *)
(* value), expand state and creation time, the same children in the same   *)
(* order, and each node's parent is the node whose children list holds it  *)
(* (None for a root).                                                      *)
(***************************************************************************)
SameTree(old, new) ==
    /\ Len(new) = Len(old)
    /\ \A i \in 1..Len(old) :
          /\ task_id'[new[i]] = task_id[old[i]]
          /\ attrs'[new[i]] = attrs[old[i]]
          /\ completed'[new[i]] = completed[old[i]]
          /\ Len(children'[new[i]]) = Len(children[old[i]])
          /\ \A j \in 1..Len(children[old[i]]) :
                /\ children'[new[i]][j] = new[IndexOf(children[old[i]][j], old)]
                /\ parent'[children'[new[i]][j]] = new[i]

C12_RoundTrip ==
    [][last'.op = "reload" =>
          /\ SameTree(Preorder(children, root_tasks), Preorder(children', root_tasks'))
          /\ Len(root_tasks') = Len(root_tasks)
          /\ \A i \in 1..Len(root_tasks) :
                /\ root_tasks'[i] =
                      Preorder(children', root_tasks')[
                          IndexOf(root_tasks[i], Preorder(children, root_tasks))]
                /\ parent'[root_tasks'[i]] = None]_vars

C12_Witness ==
    /\ last.op = "reload"
    /\ \E p \in nodes :
          /\ Len(children[p]) = 2
          /\ completed[p]
          /\ ~is_completed(children, completed, p)
          /\ attrs[p].is_expanded
          /\ attrs[children[p][1]].name = "b"
          /\ attrs[children[p][2]].name = "a"
          /\ attrs[children[p][1]].description = "d"

(***************************************************************************)
(* Records of an upload, by the keys they carry.                           *)
(***************************************************************************)
OptionalKeys == {"is_expanded", "created_at"}

OtherKeys == {"task_id", "name", "description", "is_completed", "children"}

RECURSIVE HasOtherKeys(_)
HasOtherKeys(list) ==
    \A i \in 1..Len(list) :
        OtherKeys \subseteq DOMAIN list[i] /\ HasOtherKeys(list[i].children)

(***************************************************************************)
(* C13: an upload whose records carry every key except, somewhere, one of  *)
(* the optional keys is_expanded and created_at is imported successfully.  *)
(***************************************************************************)
C13_OptionalKeysDefault ==
    (last.op = "import" /\ Uploads[last.arg].parses /\ HasOtherKeys(Uploads[last.arg].data))
        => last.ret

(***************************************************************************)
(* C14: an import of an upload that is not JSON, or in which some record   *)
(* lacks a key other than the optional ones, is reported as failed; and a  *)
(* failed import leaves every task object, the root list and the user's    *)
(* file as they were.                                                      *)
(***************************************************************************)
C14_ImportAllOrNothing ==
    [][last'.op = "import" =>
          /\ (~Uploads[last'.arg].parses \/ ~HasOtherKeys(Uploads[last'.arg].data))
                => ~last'.ret
          /\ ~last'.ret =>
                /\ UNCHANGED <<nodes, children, parent, completed, task_id, attrs,
                               root_tasks>>
                /\ store' = store]_vars

C14_Witness ==
    /\ last.op = "import"
    /\ ~last.ret
    /\ Uploads[last.arg].data # <<>>
    /\ HasOtherKeys(<<Head(Uploads[last.arg].data)>>)
    /\ ~HasOtherKeys(Uploads[last.arg].data)
    /\ root_tasks # <<>>
    /\ store[session.username].exists

(***************************************************************************)
(* C15: the forest a logged-in user works on in a script run was loaded    *)
(* for that user, and a user's file is only ever written with a forest     *)
(* loaded for that user.                                                   *)
(***************************************************************************)
C15_OwnForestOnly ==
    [][/\ (last'.op \in {"render", "add_root", "set_task_completed"}
             /\ session'.authenticated /\ session'.has_root_tasks)
            => owner' = session'.username
       /\ \A u \in Users : store'[u] # store[u] => owner' = u]_vars

(***************************************************************************)
(* C16: logging out of a session that holds a forest writes the forest to  *)
(* the user's file and removes it from the session.                        *)
(***************************************************************************)
C16_LogoutFlushesAndDiscards ==
    [][(last'.op = "logout" /\ session.has_root_tasks) =>
          /\ store'[session.username] =
                save_tasks_to_file(children, completed, task_id, attrs, root_tasks)
          /\ ~session'.has_root_tasks]_vars

(***************************************************************************)
(* C17: when the handler of add root, add child, delete, promote, demote   *)
(* or import has succeeded, the user's file holds the records of the       *)
(* forest as it is then.                                                   *)
(***************************************************************************)
StructureOps == {"add_root", "add_child", "delete", "promote", "demote", "import"}

C17_SavedAfterStructureChange ==
    [][(last'.op \in StructureOps /\ last'.ret) =>
          store'[session'.username] =
              JsonFile(save_tasks(children', completed', task_id', attrs', root_tasks'))]_vars

C17_Witness ==
    /\ last.op = "promote"
    /\ last.ret
    /\ session.unsaved_changes
    /\ \E n \in nodes : completed[n]
    /\ store[session.username].data # <<>>

(***************************************************************************)
(* C18: a script run that draws the page writes the user's file exactly    *)
(* when unsaved_changes is set and more than AutosaveInterval seconds have *)
(* passed since last_save_time, whether or not there are tasks.            *)
(***************************************************************************)
C18_AutosaveWhenDirtyAndDue ==
    [][last'.op = "render" =>
          (last'.ret <=> (session.unsaved_changes
                          /\ now - session.last_save_time > AutosaveInterval))]_vars

(***************************************************************************)
(* C19: a handler that changed the structure, and a set_task_completed     *)
(* that changed a stored flag, leave unsaved_changes set; a                *)
(* set_task_completed that found no task or was refused by the setter      *)
(* leaves unsaved_changes as it was.                                       *)
(***************************************************************************)
C19_DirtyMarking ==
    [][/\ (last'.op \in StructureOps /\ last'.ret) => session'.unsaved_changes
       /\ (last'.op = "set_task_completed" /\ completed' # completed)
            => session'.unsaved_changes
       /\ (last'.op = "set_task_completed"
             /\ (~last'.ret \/ children[last'.node] # <<>>))
            => session'.unsaved_changes = session.unsaved_changes]_vars

(***************************************************************************)
(* C20: the script run that loads the user's file always leaves the        *)
(* session with a forest, an empty one when the load failed.               *)
(***************************************************************************)
C20_LoadFailureGivesEmptyForest ==
    [][last'.op = "open" =>
          /\ session'.has_root_tasks
          /\ ~last'.ret => root_tasks' = <<>>]_vars

(***************************************************************************)
(* C21: a write that fails in the add-root, delete or save-now handler or  *)
(* in the autosave of a page draw does not end the handler with an         *)
(* exception and changes no task object; and a page draw on a working disk *)
(* more than AutosaveInterval seconds after last_save_time writes a forest *)
(* that differs from the user's file.                                      *)
(***************************************************************************)
WriteOps == {"add_root", "delete", "save_now"}

Pending ==
    store[session.username] #
        save_tasks_to_file(children, completed, task_id, attrs, root_tasks)

C21_FailedSaveRetried ==
    [][/\ ((last'.op \in WriteOps \/ (last'.op = "render"
                                       /\ autosave_due(session, now, root_tasks)))
             /\ ~disk_ok)
            => /\ last'.ret
               /\ save_tasks(children', completed', task_id', attrs', root_tasks') =
                     save_tasks(children', completed, task_id', attrs', root_tasks')
       /\ (last'.op = "render" /\ disk_ok /\ Pending
             /\ now - session.last_save_time > AutosaveInterval)
            => ~Pending']_vars

(***************************************************************************)
(* C22: set_task_completed with an id that no node of the forest has finds *)
(* nothing: find_task_in_list gives None, no completed field changes and   *)
(* the structure is as it was.                                             *)
(***************************************************************************)
IdsInForest == {task_id[n] : n \in Forest(children, root_tasks)}

C22_UnknownIdIsNoOp ==
    [][(last'.op = "set_task_completed" /\ last'.arg \notin IdsInForest)
          => /\ find_task_in_list(children, task_id, root_tasks, last'.arg) = None
             /\ last'.node = None
             /\ ~last'.ret
             /\ completed' = completed
             /\ UNCHANGED <<nodes, children, parent, task_id, attrs, root_tasks>>]_vars

C22_Witness ==
    /\ last.op = "set_task_completed"
    /\ last.arg \notin IdsInForest
    /\ last.arg < next_id
    /\ root_tasks # <<>>
    /\ last.node = None

(***************************************************************************)
(* C23: after set_task_completed changed the flag of a leaf, with an       *)
(* autosave period still to come, the user's file eventually holds the     *)
(* forest as it is in memory, by the autosave of a page draw alone.        *)
(***************************************************************************)
LeafFlagChanged ==
    /\ last.op = "set_task_completed"
    /\ last.ret
    /\ children[last.node] = <<>>
    /\ Pending
    /\ now < MaxTicks * (AutosaveInterval + 1)

C23_CompletionEventuallySaved == LeafFlagChanged ~> ~Pending

C23_Witness ==
    /\ last.op = "render"
    /\ last.ret
    /\ ~Pending
    /\ \E n \in Forest(children, root_tasks) : children[n] = <<>> /\ completed[n]

(***************************************************************************)
(* C24: an account is locked exactly from the failed login that brings its *)
(* failed_attempts to MAX_LOGIN_ATTEMPTS, a correct password before that   *)
(* sets the counter to 0; verify_user on a locked account returns False    *)
(* for every password and leaves the users as they are, and so does the    *)
(* login form; only the unlock and reset-password buttons of admin take    *)
(* the lock away.                                                          *)
(***************************************************************************)
AttemptOn(a) == last'.op = "login_attempt" /\ last'.arg.username = a

C24_Lockout ==
    [][\A a \in Accounts :
          /\ users[a].locked <=> users[a].failed_attempts >= MAX_LOGIN_ATTEMPTS
          /\ users[a].locked =>
                \A password \in Passwords :
                    verify_user(users, a, password) = [ret |-> FALSE, users |-> users]
          /\ (AttemptOn(a) /\ users[a].locked) => ~last'.ret /\ users' = users
          /\ (AttemptOn(a) /\ ~users[a].locked /\ last'.arg.password = users[a].password)
                => /\ last'.ret
                   /\ users' = [users EXCEPT ![a].failed_attempts = 0]
          /\ (AttemptOn(a) /\ ~users[a].locked /\ last'.arg.password # users[a].password)
                => /\ ~last'.ret
                   /\ users'[a].failed_attempts = users[a].failed_attempts + 1
                   /\ users'[a].locked <=>
                         users[a].failed_attempts + 1 = MAX_LOGIN_ATTEMPTS
                   /\ \A b \in Accounts \ {a} : users'[b] = users[b]
          /\ (~users[a].locked /\ users'[a].locked) => AttemptOn(a)
          /\ (users[a].locked /\ ~users'[a].locked)
                => /\ last'.op \in {"unlock", "reset_password"}
                   /\ last'.arg.username = a
                   /\ session.authenticated /\ session.username = "admin"]_vars

C24_Witness ==
    /\ last.op = "login_attempt"
    /\ last.arg.username \in Accounts
    /\ users[last.arg.username].locked
    /\ last.arg.password = users[last.arg.username].password
    /\ ~last.ret
    /\ \E b \in Accounts : ~users[b].locked /\ users[b].failed_attempts > 0

====
